---- MODULE Spec2Model ----
(***************************************************************************)
(* The request-interception caching layer of the service worker (sw.js):   *)
(* install / activate lifecycle, the fetch listener and the per-class      *)
(* strategies (handleApiRequest, handleStaticRequest,                      *)
(* handleDynamicRequest), over a model of CacheStorage.  Every await of    *)
(* the code is one step of the model; a cache.put / cache.delete the code  *)
(* does not await is an operation in flight that takes effect in a later   *)
(* step.                                                                   *)
(*                                                                         *)
(* Spec is the worker as deployed.  Its fetch listener never takes the     *)
(* branch of handleDynamicRequest, so DynSpec drives that handler by       *)
(* calling it on requests directly, next to the same lifecycle.  Spec does *)
(* not follow the pages that issue the requests; SyncSpec follows the      *)
(* pages, the lifecycle and the sync and push events.  WarmSpec is the api  *)
(* handler started from a cache that already holds an entry.               *)
(***************************************************************************)
EXTENDS Integers, Sequences, FiniteSets

VARIABLES
  now,      \* Date.now()
  ticks,    \* number of clock advances so far
  caches,   \* CacheStorage: the caches ever created, in creation order
  w,        \* the most recently installed service worker and its lifecycle
  active,   \* the registration's active worker: [gen, ver]; gen 0 = none
  reqs,     \* the fetch events received so far, each with its handler's position
  ops,      \* cache.put / cache.delete operations issued and not yet settled
  clients,  \* the pages of the origin: state, controlling worker, messages received
  agent     \* the user agent: sync / push events dispatched, sync handlers running, notifications shown

vars == <<now, ticks, caches, w, active, reqs, ops, clients, agent>>

----------------------------------------------------------------------------
(* Bounds of the model *)

MaxEvents   == 3     \* workers installed + fetch events (or clock advances) in one behaviour
MaxInstalls == 2     \* workers installed in one behaviour
MaxCaches   == 4     \* caches created in one behaviour
MaxVersion  == 2     \* distinct values of CACHE_NAME deployed
MaxClients  == 2     \* pages of the origin in one behaviour
MaxHostEvents == 2   \* sync and push events in one behaviour

Versions == 1..MaxVersion

----------------------------------------------------------------------------
(* Constants of sw.js *)

API_CACHE_DURATION    == 10 * 60 * 1000
STATIC_CACHE_DURATION == 24 * 60 * 60 * 1000

\* Strings are sequences of pieces; a piece is never split by a search.
Origin == <<"https:", "/", "/", "weatherflow.app">>

STATIC_CACHE_URLS == <<
  <<"/">>,
  <<"/", "index.html">>,
  <<"/", "styles.css">>,
  <<"/", "js", "/", "main.js">>,
  <<"/", "js", "/", "api.js">>,
  <<"/", "js", "/", "state.js">>,
  <<"/", "js", "/", "ui.js">>,
  <<"/", "js", "/", "charts.js">>,
  <<"/", "manifest.webmanifest">>,
  <<"https:", "/", "/", "cdn.tailwindcss.com">>,
  <<"https:", "/", "/", "cdn.jsdelivr.net", "/", "npm", "/", "chart.js">>,
  <<"https:", "/", "/", "cdn.jsdelivr.net", "/", "npm", "/", "dayjs@1", "/", "dayjs.min.js">>,
  <<"https:", "/", "/", "cdn.jsdelivr.net", "/", "npm", "/", "dayjs@1", "/", "plugin", "/", "relativeTime.js">> >>

API_HOSTS == << <<"open-meteo.com">>, <<"geocoding-api", ".", "open-meteo.com">> >>

\* CACHE_NAME of the worker with version tag v, and the names derived from it
CacheName(v)        == <<v, "">>
ApiCacheName(v)     == <<v, "-api">>
DynamicCacheName(v) == <<v, "-dynamic">>

----------------------------------------------------------------------------
(* String helpers *)

\* String.prototype.includes
Includes(s, sub) ==
  \E i \in 0..(Len(s) - Len(sub)) : SubSeq(s, i + 1, i + Len(sub)) = sub

\* Number.prototype.toString of a non-negative integer: its decimal digits
RECURSIVE ToString(_)
ToString(n) == IF n < 10 THEN <<n>> ELSE Append(ToString(n \div 10), n % 10)

\* parseInt of a string of decimal digits
RECURSIVE ParseInt(_)
ParseInt(s) ==
  IF Len(s) = 1 THEN s[1]
  ELSE 10 * ParseInt(SubSeq(s, 1, Len(s) - 1)) + s[Len(s)]

\* the header is absent (headers.get gives null)
NoTs == <<>>

\* JavaScript truthiness of a header value: null and "" are falsy
Truthy(s) == Len(s) > 0

\* the URL a manifest entry resolves to when the worker requests it
AbsoluteUrl(u) ==
  IF u[1] = "/" THEN Origin \o u
  ELSE IF Len(u) = 4 THEN u \o <<"/">> ELSE u

ManifestKeys == { AbsoluteUrl(STATIC_CACHE_URLS[i]) : i \in 1..Len(STATIC_CACHE_URLS) }

----------------------------------------------------------------------------
(* Requests the application issues *)

ApiReq ==
  [method |-> "GET",
   host   |-> <<"api", ".", "open-meteo.com">>,
   url    |-> <<"https:", "/", "/", "api", ".", "open-meteo.com", "/", "v1", "/", "forecast">>,
   accept |-> <<"application/json">>]

AssetReq ==
  [method |-> "GET",
   host   |-> <<"weatherflow.app">>,
   url    |-> Origin \o <<"/", "styles.css">>,
   accept |-> <<"text/css">>]

PageReq ==
  [method |-> "GET",
   host   |-> <<"weatherflow.app">>,
   url    |-> Origin \o <<"/", "history.html">>,
   accept |-> <<"text/html", ",", "application/xhtml+xml">>]

\* a host that contains an allow-listed name without being that host
LookalikeReq ==
  [method |-> "GET",
   host   |-> <<"open-meteo.com", ".", "mirror.example">>,
   url    |-> <<"https:", "/", "/", "open-meteo.com", ".", "mirror.example", "/", "v1", "/", "forecast">>,
   accept |-> <<"application/json">>]

\* a request with another method than GET, to the forecast endpoint
PostReq == [ApiReq EXCEPT !.method = "POST"]

Requests == {ApiReq, AssetReq, PageReq, LookalikeReq, PostReq}

\* a same-origin data file: neither an API host nor a manifest member
DataReq ==
  [method |-> "GET",
   host   |-> <<"weatherflow.app">>,
   url    |-> Origin \o <<"/", "data", "/", "cities.json">>,
   accept |-> <<"application/json">>]

\* the requests handleDynamicRequest is called on in DynSpec
DynRequests == {PageReq, DataReq}

----------------------------------------------------------------------------
(* Cache entries and responses *)

NoEntry == [status |-> 0, body |-> 0, ts |-> NoTs]

Entry(b, t) == [status |-> 200, body |-> b, ts |-> t]

NoResp == [src |-> "none", status |-> 0, body |-> 0, ts |-> NoTs,
           offline |-> FALSE, ctype |-> "none"]

\* the handler's promise rejected: respondWith gets no response
Rejected == [NoResp EXCEPT !.src = "rejected"]

NetworkResponse(st, b) ==
  [src |-> "network", status |-> st, body |-> b, ts |-> NoTs,
   offline |-> FALSE, ctype |-> "origin"]

CachedResponse(e) ==
  [src |-> "cache", status |-> e.status, body |-> e.body, ts |-> e.ts,
   offline |-> FALSE, ctype |-> "origin"]

----------------------------------------------------------------------------
(* CacheStorage *)

LiveIdx(name) == { i \in 1..Len(caches) : caches[i].live /\ caches[i].name = name }

HasCache(name) == LiveIdx(name) # {}

\* caches.open can complete without exceeding the bound on created caches
CanOpen(name) == HasCache(name) \/ Len(caches) < MaxCaches

\* caches.open(name): the cache storage afterwards (created if absent)
Opened(name) ==
  IF HasCache(name) THEN caches
  ELSE Append(caches, [name |-> name, live |-> TRUE, entries |-> <<>>])

\* caches.open(name): the cache the returned handle refers to
Handle(name) ==
  IF HasCache(name) THEN CHOOSE i \in LiveIdx(name) : TRUE
  ELSE Len(caches) + 1

\* caches.keys()
CacheKeys == { caches[i].name : i \in { j \in 1..Len(caches) : caches[j].live } }

\* cache.match(request) on an open handle
CacheMatch(h, key) ==
  IF key \in DOMAIN caches[h].entries THEN caches[h].entries[key] ELSE NoEntry

\* caches.match(request): the first cache, in creation order, that has the key
CachesMatch(key) ==
  LET hits == { i \in 1..Len(caches) :
                  caches[i].live /\ key \in DOMAIN caches[i].entries }
  IN  IF hits = {} THEN NoEntry
      ELSE LET first == CHOOSE i \in hits : \A j \in hits : i <= j
           IN  caches[first].entries[key]

\* faulty variant: a put leaves the cache as it was
PutEntry_Dropped(entries, key, e) == entries

\* the entries of a cache after cache.put(key, e)
PutEntry(entries, key, e) ==
  [k \in (DOMAIN entries) \cup {key} |-> IF k = key THEN e ELSE entries[k]]

\* the entries of a cache after cache.delete(key)
DeleteEntry(entries, key) ==
  [k \in (DOMAIN entries) \ {key} |-> entries[k]]

\* caches.delete(name)
Deleted(name) ==
  [i \in 1..Len(caches) |->
     IF caches[i].name = name THEN [caches[i] EXCEPT !.live = FALSE] ELSE caches[i]]

----------------------------------------------------------------------------
(* The pages of the origin (service worker clients) *)

ClientIds == 1..MaxClients

NoClient == [state |-> "unopened", ctrl |-> 0, inbox |-> 0]

\* the registration's active worker changes: the clients it controls are
\* handed over to the new active worker g
Handover(g) ==
  [c \in ClientIds |->
     IF clients[c].state = "open" /\ clients[c].ctrl # 0
     THEN [clients[c] EXCEPT !.ctrl = g] ELSE clients[c]]

\* self.clients.claim() of worker g: every open client is controlled by g
Claimed(g) ==
  [c \in ClientIds |->
     IF clients[c].state = "open" THEN [clients[c] EXCEPT !.ctrl = g] ELSE clients[c]]

\* self.clients.matchAll() in worker g: the open clients g controls
MatchAll(g) == { c \in ClientIds : clients[c].state = "open" /\ clients[c].ctrl = g }

\* a page of the origin is opened; it is controlled by the active worker,
\* if there is one, unless the load bypasses the worker (a forced reload)
ClientOpen(c, bypass) ==
  /\ clients[c].state = "unopened"
  /\ clients' = [clients EXCEPT ![c] =
       [@ EXCEPT !.state = "open", !.ctrl = IF bypass THEN 0 ELSE active.gen]]
  /\ UNCHANGED <<now, ticks, caches, w, active, reqs, ops, agent>>

\* a page is closed
ClientClose(c) ==
  /\ clients[c].state = "open"
  /\ clients' = [clients EXCEPT ![c] = [@ EXCEPT !.state = "closed"]]
  /\ UNCHANGED <<now, ticks, caches, w, active, reqs, ops, agent>>

----------------------------------------------------------------------------
(* Lifecycle: install *)

NoWorker ==
  [gen |-> 0, ver |-> 0, pc |-> "none", h |-> 0, skip |-> FALSE, failed |-> FALSE,
   issued |-> {}, pend |-> {}, delFailed |-> FALSE, claimed |-> FALSE]

\* the browser starts installing a worker whose script has CACHE_NAME tag v
InstallStart(v) ==
  /\ w.pc \in {"none", "activated"}
  /\ w.pend = {}
  /\ w.gen < MaxInstalls
  /\ w.gen + 1 + Len(reqs) <= MaxEvents
  /\ w.gen + 1 + ticks <= MaxEvents
  /\ v <= w.gen + 1
  /\ w' = [NoWorker EXCEPT !.gen = w.gen + 1, !.ver = v, !.pc = "open"]
  /\ UNCHANGED <<clients, agent, now, ticks, caches, active, reqs, ops>>

\* caches.open(CACHE_NAME); a rejection goes to the .catch, which logs it,
\* so the promise given to waitUntil fulfils and the worker is installed
InstallOpen(ok) ==
  /\ w.pc = "open"
  /\ IF ok
     THEN /\ CanOpen(CacheName(w.ver))
          /\ caches' = Opened(CacheName(w.ver))
          /\ w' = [w EXCEPT !.pc = "addAll", !.h = Handle(CacheName(w.ver))]
     ELSE /\ caches' = caches
          /\ w' = [w EXCEPT !.pc = "installed", !.failed = TRUE]
  /\ UNCHANGED <<clients, agent, now, ticks, active, reqs, ops>>

\* the payload the origin serves to the prefetch of the g-th installed worker
PrefetchBody(g) == 100 + g

\* faulty variant: the install handler goes on to skipWaiting after a failed
\* prefetch
InstallAddAll_SkipsAnyway(ok) ==
  /\ w.pc = "addAll"
  /\ IF ok
     THEN /\ caches' = [caches EXCEPT ![w.h].entries =
                          [k \in (DOMAIN @) \cup ManifestKeys |->
                             IF k \in ManifestKeys THEN Entry(PrefetchBody(w.gen), NoTs)
                             ELSE @[k]]]
          /\ w' = [w EXCEPT !.pc = "skipWaiting"]
     ELSE /\ caches' = caches
          /\ w' = [w EXCEPT !.pc = "skipWaiting", !.failed = TRUE]
  /\ UNCHANGED <<clients, agent, now, ticks, active, reqs, ops>>

\* cache.addAll(STATIC_CACHE_URLS): all entries are stored, or none
InstallAddAll(ok) ==
  /\ w.pc = "addAll"
  /\ IF ok
     THEN /\ caches' = [caches EXCEPT ![w.h].entries =
                          [k \in (DOMAIN @) \cup ManifestKeys |->
                             IF k \in ManifestKeys THEN Entry(PrefetchBody(w.gen), NoTs)
                             ELSE @[k]]]
          /\ w' = [w EXCEPT !.pc = "skipWaiting"]
     ELSE /\ caches' = caches
          /\ w' = [w EXCEPT !.pc = "installed", !.failed = TRUE]
  /\ UNCHANGED <<clients, agent, now, ticks, active, reqs, ops>>

\* self.skipWaiting()
InstallSkipWaiting ==
  /\ w.pc = "skipWaiting"
  /\ w' = [w EXCEPT !.pc = "installed", !.skip = TRUE]
  /\ UNCHANGED <<clients, agent, now, ticks, caches, active, reqs, ops>>

----------------------------------------------------------------------------
(* The message listener *)

MessageTypes == {"SKIP_WAITING", "OTHER"}

\* faulty variant: every message calls self.skipWaiting()
Message_AnyType(m) ==
  /\ w.pc # "none"
  /\ w' = IF w.pc \in {"open", "addAll", "skipWaiting", "installed"}
          THEN [w EXCEPT !.skip = TRUE]
          ELSE w
  /\ UNCHANGED <<clients, agent, now, ticks, caches, active, reqs, ops>>

\* a client posts a message to the newest worker; SKIP_WAITING calls
\* self.skipWaiting(), which only matters until the worker is active
Message(m) ==
  /\ w.pc # "none"
  /\ w' = IF m = "SKIP_WAITING" /\ w.pc \in {"open", "addAll", "skipWaiting", "installed"}
          THEN [w EXCEPT !.skip = TRUE]
          ELSE w
  /\ UNCHANGED <<clients, agent, now, ticks, caches, active, reqs, ops>>

----------------------------------------------------------------------------
(* Lifecycle: activate *)

InFlight == { i \in 1..Len(reqs) : reqs[i].pc \notin {"done", "passthrough"} }

\* the waiting worker becomes the active worker: skipWaiting was called, or
\* there is no active worker, or the active worker has no client left.  (With
\* skipWaiting a user agent may first let the handlers of the old worker
\* finish, but it does not wait for a stalled one; the old worker's handlers
\* that are in flight go on as far as the user agent lets them.)
ActivateStart ==
  /\ w.pc = "installed"
  /\ w.skip \/ active.gen = 0 \/ InFlight = {}
  /\ w' = [w EXCEPT !.pc = "keys"]
  /\ active' = [gen |-> w.gen, ver |-> w.ver]
  /\ clients' = Handover(w.gen)
  /\ UNCHANGED <<agent, now, ticks, caches, reqs, ops>>

\* the test of the activate listener for deleting a cache
IsOldCache(cacheName, v) == cacheName # CacheName(v)

\* caches.keys() settles and caches.delete is issued for every old cache
ActivateKeys ==
  /\ w.pc = "keys"
  /\ LET old == { n \in CacheKeys : IsOldCache(n, w.ver) }
     IN  w' = [w EXCEPT !.pc = "deleting", !.issued = old, !.pend = old]
  /\ UNCHANGED <<clients, agent, now, ticks, caches, active, reqs, ops>>

\* one caches.delete(cacheName) settles
ActivateDelete(n, ok) ==
  /\ n \in w.pend
  /\ IF ok
     THEN /\ caches' = Deleted(n)
          /\ w' = [w EXCEPT !.pend = @ \ {n}]
     ELSE /\ caches' = caches
          /\ w' = [w EXCEPT !.pend = @ \ {n}, !.delFailed = TRUE]
  /\ UNCHANGED <<clients, agent, now, ticks, active, reqs, ops>>

\* faulty variant: the claim does not wait for the deletions
ClaimReady_NoWait(x) == TRUE

\* Promise.all(...) has fulfilled: every deletion has fulfilled
ClaimReady(x) == x.pend = {} /\ ~x.delFailed

\* .then(() => self.clients.claim())
ActivateClaim ==
  /\ w.pc = "deleting"
  /\ ClaimReady(w)
  /\ w' = [w EXCEPT !.pc = "activated", !.claimed = TRUE]
  /\ clients' = Claimed(w.gen)
  /\ UNCHANGED <<agent, now, ticks, caches, active, reqs, ops>>

\* Promise.all(...) rejected with the first failed deletion: the .then is
\* skipped and the worker is activated without claiming
ActivateReject ==
  /\ w.pc = "deleting"
  /\ w.delFailed
  /\ w' = [w EXCEPT !.pc = "activated"]
  /\ UNCHANGED <<clients, agent, now, ticks, caches, active, reqs, ops>>

----------------------------------------------------------------------------
(* The sync and push listeners *)

SyncTags == {"weather-sync", "other-sync"}

\* a sync event is dispatched to the active worker once it is activated;
\* with the tag 'weather-sync' syncWeatherData() starts and awaits
\* self.clients.matchAll()
SyncEvent(tag) ==
  /\ agent.events < MaxHostEvents
  /\ active.gen # 0
  /\ active.gen = w.gen => w.pc = "activated"
  /\ agent' = [agent EXCEPT !.events = @ + 1,
                          !.syncing = IF tag = "weather-sync"
                                      THEN @ \cup {[id |-> agent.events + 1, gen |-> active.gen]}
                                      ELSE @]
  /\ UNCHANGED <<now, ticks, caches, w, active, reqs, ops, clients>>

\* await self.clients.matchAll() settles in the worker that got the event:
\* each client of the list is posted the BACKGROUND_SYNC message
SyncMatchAll(s) ==
  /\ s \in agent.syncing
  /\ clients' = [c \in ClientIds |->
                   IF c \in MatchAll(s.gen) THEN [clients[c] EXCEPT !.inbox = @ + 1]
                   ELSE clients[c]]
  /\ agent' = [agent EXCEPT !.syncing = @ \ {s}]
  /\ UNCHANGED <<now, ticks, caches, w, active, reqs, ops>>

\* a push event: without data the listener returns, otherwise it shows a
\* notification
Push(hasData) ==
  /\ agent.events < MaxHostEvents
  /\ active.gen # 0
  /\ active.gen = w.gen => w.pc = "activated"
  /\ agent' = [agent EXCEPT !.events = @ + 1,
                          !.shown = IF hasData THEN @ + 1 ELSE @]
  /\ UNCHANGED <<now, ticks, caches, w, active, reqs, ops, clients>>

----------------------------------------------------------------------------
(* The fetch listener *)

\* url.hostname.includes('open-meteo.com') || url.hostname.includes('geocoding-api.open-meteo.com')
IsApiHost(host) == \E i \in 1..Len(API_HOSTS) : Includes(host, API_HOSTS[i])

\* STATIC_CACHE_URLS.some(staticUrl => request.url.includes(staticUrl))
IsStaticUrl(url) == \E i \in 1..Len(STATIC_CACHE_URLS) : Includes(url, STATIC_CACHE_URLS[i])

\* faulty variant: the listener handles every method
Intercepted_AnyMethod(q) == TRUE

\* if (request.method !== 'GET') return;
Intercepted(q) == q.method = "GET"

\* the strategy the fetch listener picks for a GET request
Classify(q) ==
  IF IsApiHost(q.host) THEN "api"
  ELSE IF IsStaticUrl(q.url) THEN "static"
  ELSE "dynamic"

\* the first step of the handler of each class
FirstStep(cls) ==
  CASE cls = "api"     -> "api_fetch"
    [] cls = "static"  -> "st_match"
    [] cls = "dynamic" -> "dyn_fetch"

Done == { i \in 1..Len(reqs) : reqs[i].pc = "done" }

NewRequest(q, v) ==
  [req |-> q, ver |-> v, cls |-> "none", pc |-> "passthrough",
   net |-> "none", netBody |-> 0, looked |-> FALSE, hit |-> NoEntry, tm |-> 0,
   h |-> 0, put |-> NoEntry, del |-> FALSE, bg |-> FALSE,
   resp |-> NoResp, before |-> Done]

\* a fetch event is dispatched to the active worker once it is activated
FetchEvent(q) ==
  /\ w.gen + Len(reqs) < MaxEvents
  /\ active.gen # 0
  /\ active.gen = w.gen => w.pc = "activated"
  /\ reqs' = Append(reqs,
       IF ~Intercepted(q) THEN NewRequest(q, active.ver)
       ELSE [NewRequest(q, active.ver) EXCEPT
               !.cls = Classify(q), !.pc = FirstStep(Classify(q))])
  /\ UNCHANGED <<clients, agent, now, ticks, caches, w, active, ops>>

\* the outcomes of fetch(request): a 2xx response, another status, a rejection
NetOutcomes == {"ok", "httperr", "neterr"}

HttpErrorStatus == 500

\* the payload the origin serves to the fetch of the i-th request
NetBody(i) == i

----------------------------------------------------------------------------
(* FreshnessPolicy *)

\* faulty variant: the comparison is not strict
IsExpired_NonStrict(storedAt, t, ttl) == (t - storedAt) >= ttl

\* (Date.now() - parseInt(cacheTimestamp)) > duration
IsExpired(storedAt, t, ttl) == (t - storedAt) > ttl

\* faulty variant: the api entry is checked against the static window
ApiIsExpired_StaticTtl(e, t) ==
  Truthy(e.ts) /\ (t - ParseInt(e.ts)) > STATIC_CACHE_DURATION

\* const isExpired = cacheTimestamp && (...) > API_CACHE_DURATION
ApiIsExpired(e, t) == Truthy(e.ts) /\ IsExpired(ParseInt(e.ts), t, API_CACHE_DURATION)

\* const shouldUpdate = !cacheTimestamp || (...) > STATIC_CACHE_DURATION
ShouldUpdate(e, t) == ~Truthy(e.ts) \/ IsExpired(ParseInt(e.ts), t, STATIC_CACHE_DURATION)

----------------------------------------------------------------------------
(* OfflineFallbackProvider *)

\* faulty variant: the generic response, without the offline flag
ApiFallback_NoFlag ==
  [src |-> "fallback", status |-> 503, body |-> 0, ts |-> NoTs,
   offline |-> FALSE, ctype |-> "text/plain"]

\* JSON.stringify({error: ..., offline: true}), status 503
ApiFallback ==
  [src |-> "fallback", status |-> 503, body |-> 0, ts |-> NoTs,
   offline |-> TRUE, ctype |-> "application/json"]

\* the offline document; the Response gets the default status 200
OfflineDocument ==
  [src |-> "fallback", status |-> 200, body |-> 0, ts |-> NoTs,
   offline |-> FALSE, ctype |-> "text/html"]

\* new Response('Service Unavailable', { status: 503 })
Unavailable ==
  [src |-> "fallback", status |-> 503, body |-> 0, ts |-> NoTs,
   offline |-> FALSE, ctype |-> "text/plain"]

\* request.headers.get('accept')?.includes('text/html')
AcceptsHtml(q) == Includes(q.accept, <<"text/html">>)

----------------------------------------------------------------------------
(* handleApiRequest *)

PutOp(i, h, key, e) == [rid |-> i, kind |-> "put", h |-> h, key |-> key, entry |-> e]

DeleteOp(i, h, key) == [rid |-> i, kind |-> "delete", h |-> h, key |-> key, entry |-> NoEntry]

\* faulty variant: the stored response is built from a consumed (empty) body
StampedEntry_EmptyBody(b, t) == Entry(0, ToString(t))

\* the entry handleApiRequest stores: the body with 'sw-cache-timestamp'
StampedEntry(b, t) == Entry(b, ToString(t))

\* faulty variant: a fetch settles only when no earlier request is in flight
ApiFetch_Serialized(i, out) ==
  /\ reqs[i].pc = "api_fetch"
  /\ \A j \in 1..(i - 1) : reqs[j].pc \in {"done", "passthrough"}
  /\ reqs' = [reqs EXCEPT ![i] =
       IF out = "ok"
       THEN [@ EXCEPT !.net = out, !.netBody = NetBody(i), !.pc = "api_open_w"]
       ELSE [@ EXCEPT !.net = out, !.pc = "api_open_r"]]
  /\ UNCHANGED <<clients, agent, now, ticks, caches, w, active, ops>>

\* await fetch(request) settles; a non-2xx response throws into the catch
ApiFetch(i, out) ==
  /\ reqs[i].pc = "api_fetch"
  /\ reqs' = [reqs EXCEPT ![i] =
       IF out = "ok"
       THEN [@ EXCEPT !.net = out, !.netBody = NetBody(i), !.pc = "api_open_w"]
       ELSE [@ EXCEPT !.net = out, !.pc = "api_open_r"]]
  /\ UNCHANGED <<clients, agent, now, ticks, caches, w, active, ops>>

\* await caches.open(cacheName) in the try block settles; on success the
\* put is issued (not awaited) and the network response is returned
ApiOpenWrite(i, ok) ==
  /\ reqs[i].pc = "api_open_w"
  /\ LET r    == reqs[i]
         name == ApiCacheName(r.ver)
         e    == StampedEntry(r.netBody, now)
     IN  IF ok
         THEN /\ CanOpen(name)
              /\ caches' = Opened(name)
              /\ ops' = ops \cup {PutOp(i, Handle(name), r.req.url, e)}
              /\ reqs' = [reqs EXCEPT ![i] =
                   [@ EXCEPT !.pc = "done", !.h = Handle(name), !.put = e,
                             !.resp = NetworkResponse(200, r.netBody)]]
         ELSE /\ caches' = caches
              /\ ops' = ops
              /\ reqs' = [reqs EXCEPT ![i].pc = "api_open_r"]
  /\ UNCHANGED <<clients, agent, now, ticks, w, active>>

\* await caches.open(cacheName) in the catch block settles; a rejection
\* there rejects the handler's promise
ApiOpenRead(i, ok) ==
  /\ reqs[i].pc = "api_open_r"
  /\ LET name == ApiCacheName(reqs[i].ver)
     IN  IF ok
         THEN /\ CanOpen(name)
              /\ caches' = Opened(name)
              /\ reqs' = [reqs EXCEPT ![i] =
                   [@ EXCEPT !.pc = "api_match", !.h = Handle(name)]]
         ELSE /\ caches' = caches
              /\ reqs' = [reqs EXCEPT ![i] =
                   [@ EXCEPT !.pc = "done", !.resp = Rejected]]
  /\ UNCHANGED <<clients, agent, now, ticks, w, active, ops>>

\* await cache.match(request) settles: serve a fresh entry, delete (not
\* awaited) an expired one, otherwise answer with the offline payload
ApiMatch(i) ==
  /\ reqs[i].pc = "api_match"
  /\ LET r == reqs[i]
         e == CacheMatch(r.h, r.req.url)
     IN  IF e # NoEntry /\ ~ApiIsExpired(e, now)
         THEN /\ reqs' = [reqs EXCEPT ![i] =
                   [@ EXCEPT !.pc = "done", !.looked = TRUE, !.hit = e, !.tm = now,
                             !.resp = CachedResponse(e)]]
              /\ ops' = ops
         ELSE /\ reqs' = [reqs EXCEPT ![i] =
                   [@ EXCEPT !.pc = "done", !.looked = TRUE, !.hit = e, !.tm = now,
                             !.del = (e # NoEntry), !.resp = ApiFallback]]
              /\ ops' = IF e # NoEntry THEN ops \cup {DeleteOp(i, r.h, r.req.url)} ELSE ops
  /\ UNCHANGED <<clients, agent, now, ticks, caches, w, active>>

----------------------------------------------------------------------------
(* handleStaticRequest *)

\* handleStaticRequest(request) has no binding named event, so evaluating
\* event.waitUntil throws before updateStaticCache(request) is called
EventInScope == FALSE

\* await caches.match(request) in the try block settles
StaticMatch(i) ==
  /\ reqs[i].pc = "st_match"
  /\ LET r == reqs[i]
         e == CachesMatch(r.req.url)
     IN  reqs' = [reqs EXCEPT ![i] =
           IF e = NoEntry
           THEN [@ EXCEPT !.looked = TRUE, !.hit = e, !.tm = now, !.pc = "st_fetch"]
           ELSE IF ShouldUpdate(e, now) /\ ~EventInScope
           THEN [@ EXCEPT !.looked = TRUE, !.hit = e, !.tm = now, !.pc = "st_match2"]
           ELSE [@ EXCEPT !.looked = TRUE, !.hit = e, !.tm = now, !.pc = "done",
                          !.bg = ShouldUpdate(e, now),
                          !.resp = CachedResponse(e)]]
  /\ UNCHANGED <<clients, agent, now, ticks, caches, w, active, ops>>

\* faulty variant: a response of any status is stored
StaticFetch_StoresAnyStatus(i, out) ==
  /\ reqs[i].pc = "st_fetch"
  /\ reqs' = [reqs EXCEPT ![i] =
       IF out = "neterr"
       THEN [@ EXCEPT !.net = out, !.pc = "st_match2"]
       ELSE [@ EXCEPT !.net = out, !.netBody = NetBody(i), !.pc = "st_open_w"]]
  /\ UNCHANGED <<clients, agent, now, ticks, caches, w, active, ops>>

\* await fetch(request) settles; a non-2xx response is returned as it is,
\* a rejection goes to the catch
StaticFetch(i, out) ==
  /\ reqs[i].pc = "st_fetch"
  /\ reqs' = [reqs EXCEPT ![i] =
       CASE out = "ok"      -> [@ EXCEPT !.net = out, !.netBody = NetBody(i), !.pc = "st_open_w"]
         [] out = "httperr" -> [@ EXCEPT !.net = out, !.pc = "done",
                                         !.resp = NetworkResponse(HttpErrorStatus, 0)]
         [] out = "neterr"  -> [@ EXCEPT !.net = out, !.pc = "st_match2"]]
  /\ UNCHANGED <<clients, agent, now, ticks, caches, w, active, ops>>

\* await caches.open(CACHE_NAME) settles; on success the put is issued (not
\* awaited) and the network response is returned
StaticOpenWrite(i, ok) ==
  /\ reqs[i].pc = "st_open_w"
  /\ LET r    == reqs[i]
         name == CacheName(r.ver)
         e    == StampedEntry(r.netBody, now)
     IN  IF ok
         THEN /\ CanOpen(name)
              /\ caches' = Opened(name)
              /\ ops' = ops \cup {PutOp(i, Handle(name), r.req.url, e)}
              /\ reqs' = [reqs EXCEPT ![i] =
                   [@ EXCEPT !.pc = "done", !.h = Handle(name), !.put = e,
                             !.resp = NetworkResponse(200, r.netBody)]]
         ELSE /\ caches' = caches
              /\ ops' = ops
              /\ reqs' = [reqs EXCEPT ![i].pc = "st_match2"]
  /\ UNCHANGED <<clients, agent, now, ticks, w, active>>

\* await caches.match(request) in the catch block settles
StaticMatch2(i) ==
  /\ reqs[i].pc = "st_match2"
  /\ LET r == reqs[i]
         e == CachesMatch(r.req.url)
     IN  reqs' = [reqs EXCEPT ![i] =
           [@ EXCEPT !.pc = "done",
                     !.resp = IF e # NoEntry THEN CachedResponse(e)
                              ELSE IF AcceptsHtml(r.req) THEN OfflineDocument
                              ELSE Unavailable]]
  /\ UNCHANGED <<clients, agent, now, ticks, caches, w, active, ops>>

----------------------------------------------------------------------------
(* handleDynamicRequest *)

\* handleDynamicRequest(request) is called on a request (the call of the
\* listener's last branch), while the active worker is activated
DynamicCall(q) ==
  /\ w.gen + Len(reqs) < MaxEvents
  /\ active.gen # 0
  /\ active.gen = w.gen => w.pc = "activated"
  /\ reqs' = Append(reqs,
       [NewRequest(q, active.ver) EXCEPT !.cls = "dynamic", !.pc = FirstStep("dynamic")])
  /\ UNCHANGED <<clients, agent, now, ticks, caches, w, active, ops>>

\* await fetch(request) settles; a non-2xx response is returned as it is,
\* a rejection goes to the catch
DynamicFetch(i, out) ==
  /\ reqs[i].pc = "dyn_fetch"
  /\ reqs' = [reqs EXCEPT ![i] =
       CASE out = "ok"      -> [@ EXCEPT !.net = out, !.netBody = NetBody(i), !.pc = "dyn_open_w"]
         [] out = "httperr" -> [@ EXCEPT !.net = out, !.pc = "done",
                                         !.resp = NetworkResponse(HttpErrorStatus, 0)]
         [] out = "neterr"  -> [@ EXCEPT !.net = out, !.pc = "dyn_match"]]
  /\ UNCHANGED <<clients, agent, now, ticks, caches, w, active, ops>>

\* the entry handleDynamicRequest stores: networkResponse.clone(), which has
\* no 'sw-cache-timestamp' header
PlainEntry(b) == Entry(b, NoTs)

\* await caches.open(`${CACHE_NAME}-dynamic`) settles; on success the put is
\* issued (not awaited) and the network response is returned
DynamicOpenWrite(i, ok) ==
  /\ reqs[i].pc = "dyn_open_w"
  /\ LET r    == reqs[i]
         name == DynamicCacheName(r.ver)
         e    == PlainEntry(r.netBody)
     IN  IF ok
         THEN /\ CanOpen(name)
              /\ caches' = Opened(name)
              /\ ops' = ops \cup {PutOp(i, Handle(name), r.req.url, e)}
              /\ reqs' = [reqs EXCEPT ![i] =
                   [@ EXCEPT !.pc = "done", !.h = Handle(name), !.put = e,
                             !.resp = NetworkResponse(200, r.netBody)]]
         ELSE /\ caches' = caches
              /\ ops' = ops
              /\ reqs' = [reqs EXCEPT ![i].pc = "dyn_match"]
  /\ UNCHANGED <<clients, agent, now, ticks, w, active>>

\* await caches.match(request) in the catch block settles
DynamicMatch(i) ==
  /\ reqs[i].pc = "dyn_match"
  /\ LET r == reqs[i]
         e == CachesMatch(r.req.url)
     IN  reqs' = [reqs EXCEPT ![i] =
           [@ EXCEPT !.pc = "done", !.looked = TRUE, !.hit = e, !.tm = now,
                     !.resp = IF e # NoEntry THEN CachedResponse(e) ELSE Unavailable]]
  /\ UNCHANGED <<clients, agent, now, ticks, caches, w, active, ops>>

----------------------------------------------------------------------------
(* Cache operations in flight *)

\* a cache.put or cache.delete that was not awaited takes effect
OpCommit(op) ==
  /\ op \in ops
  /\ caches' = [caches EXCEPT ![op.h].entries =
                  IF op.kind = "put" THEN PutEntry(@, op.key, op.entry)
                  ELSE DeleteEntry(@, op.key)]
  /\ ops' = ops \ {op}
  /\ UNCHANGED <<clients, agent, now, ticks, w, active, reqs>>

----------------------------------------------------------------------------
(* The clock *)

TickSteps == {1, API_CACHE_DURATION, STATIC_CACHE_DURATION}

\* some handler is at an await whose continuation reads Date.now()
ClockObserved ==
  \E i \in 1..Len(reqs) : reqs[i].pc \in {"api_open_w", "api_match", "st_match", "st_open_w"}

\* time passes; the advance is taken where a handler is about to observe it
\* (it commutes with every step that does not read the clock)
Tick(d) ==
  /\ w.gen + ticks < MaxEvents
  /\ ClockObserved
  /\ now' = now + d
  /\ ticks' = ticks + 1
  /\ UNCHANGED <<clients, agent, caches, w, active, reqs, ops>>

----------------------------------------------------------------------------

Init ==
  /\ now = 0
  /\ ticks = 0
  /\ caches = <<>>
  /\ w = NoWorker
  /\ active = [gen |-> 0, ver |-> 0]
  /\ reqs = <<>>
  /\ ops = {}
  /\ clients = [c \in ClientIds |-> NoClient]
  /\ agent = [events |-> 0, syncing |-> {}, shown |-> 0]

Next ==
  \/ \E v \in Versions : InstallStart(v)
  \/ \E ok \in BOOLEAN : InstallOpen(ok)
  \/ \E ok \in BOOLEAN : InstallAddAll(ok)
  \/ InstallSkipWaiting
  \/ \E m \in MessageTypes : Message(m)
  \/ ActivateStart
  \/ ActivateKeys
  \/ \E n \in w.pend, ok \in BOOLEAN : ActivateDelete(n, ok)
  \/ ActivateClaim
  \/ ActivateReject
  \/ \E q \in Requests : FetchEvent(q)
  \/ \E i \in 1..Len(reqs), out \in NetOutcomes : ApiFetch(i, out)
  \/ \E i \in 1..Len(reqs), ok \in BOOLEAN : ApiOpenWrite(i, ok)
  \/ \E i \in 1..Len(reqs), ok \in BOOLEAN : ApiOpenRead(i, ok)
  \/ \E i \in 1..Len(reqs) : ApiMatch(i)
  \/ \E i \in 1..Len(reqs) : StaticMatch(i)
  \/ \E i \in 1..Len(reqs), out \in NetOutcomes : StaticFetch(i, out)
  \/ \E i \in 1..Len(reqs), ok \in BOOLEAN : StaticOpenWrite(i, ok)
  \/ \E i \in 1..Len(reqs) : StaticMatch2(i)
  \/ \E op \in ops : OpCommit(op)
  \/ \E d \in TickSteps : Tick(d)

Spec == Init /\ [][Next]_vars

\* the lifecycle of the worker with handleDynamicRequest called directly
DynNext ==
  \/ \E v \in Versions : InstallStart(v)
  \/ \E ok \in BOOLEAN : InstallOpen(ok)
  \/ \E ok \in BOOLEAN : InstallAddAll(ok)
  \/ InstallSkipWaiting
  \/ \E m \in MessageTypes : Message(m)
  \/ ActivateStart
  \/ ActivateKeys
  \/ \E n \in w.pend, ok \in BOOLEAN : ActivateDelete(n, ok)
  \/ ActivateClaim
  \/ ActivateReject
  \/ \E q \in DynRequests : DynamicCall(q)
  \/ \E i \in 1..Len(reqs), out \in NetOutcomes : DynamicFetch(i, out)
  \/ \E i \in 1..Len(reqs), ok \in BOOLEAN : DynamicOpenWrite(i, ok)
  \/ \E i \in 1..Len(reqs) : DynamicMatch(i)
  \/ \E op \in ops : OpCommit(op)

DynSpec == Init /\ [][DynNext]_vars

\* the lifecycle of the worker, the pages, and the sync and push events
SyncNext ==
  \/ \E v \in Versions : InstallStart(v)
  \/ \E ok \in BOOLEAN : InstallOpen(ok)
  \/ \E ok \in BOOLEAN : InstallAddAll(ok)
  \/ InstallSkipWaiting
  \/ \E m \in MessageTypes : Message(m)
  \/ ActivateStart
  \/ ActivateKeys
  \/ \E n \in w.pend, ok \in BOOLEAN : ActivateDelete(n, ok)
  \/ ActivateClaim
  \/ ActivateReject
  \/ \E c \in ClientIds, bypass \in BOOLEAN : ClientOpen(c, bypass)
  \/ \E c \in ClientIds : ClientClose(c)
  \/ \E tag \in SyncTags : SyncEvent(tag)
  \/ \E s \in agent.syncing : SyncMatchAll(s)
  \/ \E d \in BOOLEAN : Push(d)

SyncSpec == Init /\ [][SyncNext]_vars

\* the payload of a fetch made before the requests of the behaviour
WarmBody == NetBody(MaxEvents + 1)

\* the entry handleApiRequest stored for the forecast request at time 0
WarmEntry == StampedEntry(WarmBody, 0)

\* the first worker is installed, activated and has claimed the clients, and
\* an api request for the forecast has been answered from the network and
\* stored at time 0
WarmInit ==
  /\ now = 0
  /\ ticks = 0
  /\ caches = << [name |-> CacheName(1), live |-> TRUE,
                  entries |-> [k \in ManifestKeys |-> Entry(PrefetchBody(1), NoTs)]],
                 [name |-> ApiCacheName(1), live |-> TRUE,
                  entries |-> [k \in {ApiReq.url} |-> WarmEntry]] >>
  /\ w = [NoWorker EXCEPT !.gen = 1, !.ver = 1, !.pc = "activated", !.h = 1,
                          !.skip = TRUE, !.claimed = TRUE]
  /\ active = [gen |-> 1, ver |-> 1]
  /\ reqs = <<>>
  /\ ops = {}
  /\ clients = [c \in ClientIds |-> NoClient]
  /\ agent = [events |-> 0, syncing |-> {}, shown |-> 0]

\* requests for the forecast, handled by handleApiRequest, as time passes
WarmNext ==
  \/ FetchEvent(ApiReq)
  \/ \E i \in 1..Len(reqs), out \in NetOutcomes : ApiFetch(i, out)
  \/ \E i \in 1..Len(reqs), ok \in BOOLEAN : ApiOpenWrite(i, ok)
  \/ \E i \in 1..Len(reqs), ok \in BOOLEAN : ApiOpenRead(i, ok)
  \/ \E i \in 1..Len(reqs) : ApiMatch(i)
  \/ \E op \in ops : OpCommit(op)
  \/ \E d \in TickSteps : Tick(d)

WarmSpec == WarmInit /\ [][WarmNext]_vars

----------------------------------------------------------------------------
(* Vocabulary of the properties *)

ReqIds == 1..Len(reqs)

ApiDone(i) == reqs[i].cls = "api" /\ reqs[i].pc = "done"

StaticDone(i) == reqs[i].cls = "static" /\ reqs[i].pc = "done"

\* the network attempt failed: a transport error or a non-2xx status
NetFailed(i) == reqs[i].net \in {"httperr", "neterr"}

\* the failing api request i looked its key up and found an entry
ApiFoundEntry(i) ==
  ApiDone(i) /\ NetFailed(i) /\ reqs[i].looked /\ reqs[i].hit # NoEntry

\* the age, at the lookup of request i, of the entry the lookup found
AgeAtLookup(i) == reqs[i].tm - ParseInt(reqs[i].hit.ts)

\* the deletion issued by request i is still in flight
DeletePending(i) == \E op \in ops : op.rid = i /\ op.kind = "delete"

\* the cache request i looked up no longer holds the entry the lookup found
EntryGone(i) ==
  LET ents == caches[reqs[i].h].entries
      key  == reqs[i].req.url
  IN  key \notin DOMAIN ents \/ ents[key] # reqs[i].hit

----------------------------------------------------------------------------
(* C1 *)

\* C1 (as claimed): every api request whose network attempt returned 2xx
\* returns that network response and issues the overwrite of its key with the
\* new body and storedAt = now; a cached entry is returned only when the
\* network attempt failed.
C1_NetworkAlwaysWins ==
  \A i \in ReqIds :
    ApiDone(i) =>
      /\ reqs[i].net = "ok" =>
           /\ reqs[i].resp.src = "network"
           /\ reqs[i].resp.body = reqs[i].netBody
           /\ reqs[i].put.body = reqs[i].netBody
           /\ Truthy(reqs[i].put.ts)
      /\ reqs[i].resp.src = "cache" => NetFailed(i)

----------------------------------------------------------------------------
(* C2 *)

\* request j is for the key of request i, arrived after i had returned its
\* 2xx network response, failed on the network and completed its lookup
\* within the api TTL of the write of i
ScenarioA(i, j) ==
  /\ ApiDone(i) /\ reqs[i].net = "ok" /\ reqs[i].resp.src = "network"
  /\ ApiDone(j) /\ NetFailed(j) /\ reqs[j].looked
  /\ i \in reqs[j].before
  /\ reqs[j].req = reqs[i].req /\ reqs[j].ver = reqs[i].ver
  /\ reqs[j].tm - ParseInt(reqs[i].put.ts) <= 600000

\* C2 (as claimed): in Scenario A the second request returns the body the
\* first one stored, in every interleaving.
C2_WriteVisibleAtOnce ==
  \A i, j \in ReqIds :
    ScenarioA(i, j) =>
      reqs[j].resp.src = "cache" /\ reqs[j].resp.body = reqs[i].netBody

\* C2 (amended): in Scenario A, when the lookup of the second request finds
\* the entry the first request wrote (its put has taken effect and nothing
\* replaced it), the second request returns that body unchanged.
C2_StoredBodyServed ==
  \A i, j \in ReqIds :
    ScenarioA(i, j) /\ reqs[j].hit = reqs[i].put =>
      /\ reqs[j].resp.src = "cache"
      /\ reqs[j].resp.status = 200
      /\ reqs[j].resp.body = reqs[i].netBody
      /\ reqs[i].resp.body = reqs[i].netBody

C2_Witness ==
  \E i, j \in ReqIds :
    ScenarioA(i, j) /\ reqs[j].hit = reqs[i].put /\ reqs[j].resp.src = "cache"

----------------------------------------------------------------------------
(* C3 *)

\* C3: an api request whose network attempt failed and whose lookup found no
\* entry for its key gets a synthesized 503 response marked offline = true.
C3_OfflineFallback ==
  \A i \in ReqIds :
    ApiDone(i) /\ NetFailed(i) /\ reqs[i].looked /\ reqs[i].hit = NoEntry =>
      /\ reqs[i].resp.src = "fallback"
      /\ reqs[i].resp.status = 503
      /\ reqs[i].resp.offline

C3_Witness ==
  \E i \in ReqIds :
    /\ ApiDone(i) /\ NetFailed(i) /\ reqs[i].looked /\ reqs[i].hit = NoEntry
    /\ reqs[i].resp.status = 503

----------------------------------------------------------------------------
(* C4 *)

\* C4 (as claimed): when a failing api request found an entry older than the
\* api TTL, it returns the offline fallback and the entry is deleted, so that
\* a later lookup of the key finds no entry.
C4_ExpiredEntryDeleted ==
  \A i \in ReqIds :
    ApiFoundEntry(i) /\ AgeAtLookup(i) > 600000 =>
      /\ reqs[i].resp.src = "fallback"
      /\ EntryGone(i)

\* C4 (amended): when a failing api request found an entry older than the
\* api TTL, it returns the offline fallback (503, offline = true), never the
\* expired entry, and has issued the deletion of the entry: the deletion is
\* in flight or the entry is gone.
C4_ExpiredEntryDeleteIssued ==
  \A i \in ReqIds :
    ApiFoundEntry(i) /\ AgeAtLookup(i) > 600000 =>
      /\ reqs[i].resp.src = "fallback"
      /\ reqs[i].resp.status = 503
      /\ reqs[i].resp.offline
      /\ reqs[i].del
      /\ DeletePending(i) \/ EntryGone(i)

C4_Witness ==
  \E i \in ReqIds :
    /\ ApiFoundEntry(i) /\ AgeAtLookup(i) = 600001
    /\ ~DeletePending(i) /\ EntryGone(i)

----------------------------------------------------------------------------
(* C5 *)

\* C5: with the api TTL of 10 minutes (600000 ms), a failing api request
\* serves the entry it found when the entry's age is at most the TTL (age
\* exactly TTL included) and answers with the fallback when the age exceeds
\* the TTL (TTL + 1 included).
C5_FreshnessBoundary ==
  \A i \in ReqIds :
    ApiFoundEntry(i) /\ Truthy(reqs[i].hit.ts) =>
      /\ AgeAtLookup(i) <= 600000 =>
           reqs[i].resp.src = "cache" /\ reqs[i].resp.body = reqs[i].hit.body
      /\ AgeAtLookup(i) > 600000 => reqs[i].resp.src = "fallback"

C5_Witness ==
  \E i \in ReqIds :
    ApiFoundEntry(i) /\ AgeAtLookup(i) = 600000 /\ reqs[i].resp.src = "cache"

----------------------------------------------------------------------------
(* C6 *)

\* C6 (as claimed): a static request whose lookup found an entry for the
\* request returns a cached entry, whatever its age, without any network
\* attempt.
C6_CachedEntryReturned ==
  \A i \in ReqIds :
    StaticDone(i) /\ reqs[i].looked /\ reqs[i].hit # NoEntry =>
      /\ reqs[i].resp.src = "cache"
      /\ reqs[i].net = "none"

----------------------------------------------------------------------------
(* C7 *)

\* C7 (as claimed): a static request that hit an entry older than the static
\* TTL (24 h) returns the stale entry and has issued the background refetch
\* updateStaticCache(request).
C7_BackgroundRefresh ==
  \A i \in ReqIds :
    /\ StaticDone(i) /\ reqs[i].looked /\ reqs[i].hit # NoEntry
    /\ Truthy(reqs[i].hit.ts) /\ AgeAtLookup(i) > 86400000
    => reqs[i].resp.src = "cache" /\ reqs[i].bg

----------------------------------------------------------------------------
(* C8 *)

\* C8 (as claimed): a worker whose prefetch failed during install never
\* becomes the active, activated worker.
C8_InstallAllOrNothing ==
  w.failed => ~(w.pc = "activated" /\ active.gen = w.gen)

----------------------------------------------------------------------------
(* C9 *)

\* C9 (as claimed): a cache is deleted only if its version tag differs from
\* the version of the activating worker.
C9_DeleteIffOtherVersion ==
  [][\A i \in 1..Len(caches) :
       caches[i].live /\ ~caches'[i].live => caches[i].name[1] # w.ver]_vars

----------------------------------------------------------------------------
(* C10 *)

----------------------------------------------------------------------------
(* Vocabulary of the classification properties *)

IsGet(i) == reqs[i].req.method = "GET"

\* the handler of request i has returned (or its promise has rejected)
Handled(i) == reqs[i].cls # "none" /\ reqs[i].pc = "done"

\* s ends with the pieces of suffix, after a dot
IsSubdomainOf(s, suffix) ==
  /\ Len(s) > Len(suffix) + 1
  /\ SubSeq(s, Len(s) - Len(suffix) + 1, Len(s)) = suffix
  /\ s[Len(s) - Len(suffix)] = "."

\* the host is an allow-listed API host, or a host of an allow-listed domain
IsAllowListedHost(host) ==
  \E k \in 1..Len(API_HOSTS) :
    host = API_HOSTS[k] \/ IsSubdomainOf(host, API_HOSTS[k])

\* the URL is one of the URLs of the manifest
IsManifestMember(url) == url \in ManifestKeys

----------------------------------------------------------------------------
(* C11 *)

\* C11 (as claimed): a GET request whose host is not an allow-listed API host
\* and whose URL is not a member of the manifest is classified dynamic.
C11_OtherRequestsDynamic ==
  \A i \in ReqIds :
    IsGet(i) /\ ~IsAllowListedHost(reqs[i].req.host) /\ ~IsManifestMember(reqs[i].req.url)
      => reqs[i].cls = "dynamic"

----------------------------------------------------------------------------
(* C12 *)

\* C12 (as claimed): a GET request is classified api exactly when its host is
\* an allow-listed API host (containing an allow-listed name is not enough),
\* so that a request classified static is never one of an allow-listed host.
\* (That a static request is a member of the manifest is the matter of C11.)
C12_ApiIffAllowListedHost ==
  \A i \in ReqIds :
    IsGet(i) =>
      /\ reqs[i].cls = "api" <=> IsAllowListedHost(reqs[i].req.host)
      /\ reqs[i].cls = "static" => ~IsAllowListedHost(reqs[i].req.host)

----------------------------------------------------------------------------
(* C13 *)

\* C13: a request with another method than GET passes through: the listener
\* gives it no response and no class, no handler runs for it, no lookup is
\* made and no cache operation is ever issued on its behalf.
C13_NonGetUntouched ==
  \A i \in ReqIds :
    ~IsGet(i) =>
      /\ reqs[i].pc = "passthrough" /\ reqs[i].cls = "none"
      /\ reqs[i].resp = NoResp /\ reqs[i].net = "none"
      /\ ~reqs[i].looked /\ reqs[i].hit = NoEntry
      /\ reqs[i].put = NoEntry /\ ~reqs[i].del
      /\ \A op \in ops : op.rid # i

\* a POST passed through although a GET of the same URL was cached
C13_Witness ==
  \E i, j \in ReqIds :
    /\ ~IsGet(i) /\ reqs[i].pc = "passthrough"
    /\ IsGet(j) /\ reqs[j].req.url = reqs[i].req.url
    /\ reqs[j].put # NoEntry /\ j \in reqs[i].before

----------------------------------------------------------------------------
(* C14 *)

\* C14 (as claimed): in every class, a request whose network attempt ended
\* with a non-2xx status does not return that network response (it takes the
\* lookup / fallback path, as after a transport error).
C14_HttpErrorNotReturned ==
  \A i \in ReqIds :
    Handled(i) /\ reqs[i].net = "httperr" => reqs[i].resp.src # "network"

----------------------------------------------------------------------------
(* C15 *)

\* C15 (as claimed): a request whose network attempt returned 2xx returns
\* that network response, whether or not the cache could be written.
C15_WriteFailureSwallowed ==
  \A i \in ReqIds :
    Handled(i) /\ reqs[i].net = "ok" =>
      /\ reqs[i].resp.src = "network"
      /\ reqs[i].resp.status = 200
      /\ reqs[i].resp.body = reqs[i].netBody

----------------------------------------------------------------------------
(* C16 *)

\* C16 (as claimed): the handler of an intercepted GET request ends with a
\* response from the network, from the cache or from the fallback provider;
\* its promise never rejects.
C16_NeverRejects ==
  \A i \in ReqIds :
    Handled(i) => reqs[i].resp.src \in {"network", "cache", "fallback"}

----------------------------------------------------------------------------
(* C17 *)

\* C17 (as claimed): a static request whose lookup found no entry fetches
\* from the network; on success (2xx) it issues the write of the response
\* with storedAt = now and returns the network response; on failure (a
\* transport error or a non-2xx status) it returns a cached entry or the
\* fallback response.
C17_StaticMissPath ==
  \A i \in ReqIds :
    StaticDone(i) /\ reqs[i].looked /\ reqs[i].hit = NoEntry =>
      /\ reqs[i].net # "none"
      /\ reqs[i].net = "ok" =>
           /\ reqs[i].resp.src = "network"
           /\ reqs[i].resp.body = reqs[i].netBody
           /\ reqs[i].put.body = reqs[i].netBody
           /\ Truthy(reqs[i].put.ts)
      /\ NetFailed(i) => reqs[i].resp.src \in {"cache", "fallback"}

----------------------------------------------------------------------------
(* C18 *)

\* C18 (as claimed): handleDynamicRequest returns the network response and
\* issues the overwrite of the key when the network attempt returned 2xx;
\* when it failed (a transport error or a non-2xx status) it returns the
\* entry found for the key, deleting nothing, and the fallback response only
\* if there is none.
C18_DynamicStrategy ==
  \A i \in ReqIds :
    reqs[i].cls = "dynamic" /\ reqs[i].pc = "done" =>
      /\ reqs[i].net = "ok" =>
           /\ reqs[i].resp.src = "network"
           /\ reqs[i].put.body = reqs[i].netBody
      /\ NetFailed(i) =>
           /\ reqs[i].looked /\ ~reqs[i].del
           /\ reqs[i].hit # NoEntry => reqs[i].resp = CachedResponse(reqs[i].hit)
           /\ reqs[i].hit = NoEntry => reqs[i].resp.src = "fallback"

----------------------------------------------------------------------------
(* C19 *)

\* the fallback response the request is due
FallbackDue(r) ==
  IF r.cls = "api" THEN ApiFallback
  ELSE IF AcceptsHtml(r.req) THEN OfflineDocument
  ELSE Unavailable

\* C19 (as claimed): a request answered by the fallback provider gets the
\* offline payload if it is of class api, the offline document if it is of
\* another class and accepts text/html, and the generic 503 otherwise.
C19_FallbackSelection ==
  \A i \in ReqIds :
    reqs[i].pc = "done" /\ reqs[i].resp.src = "fallback" =>
      reqs[i].resp = FallbackDue(reqs[i])

----------------------------------------------------------------------------
(* C20 *)

\* the put issued by request i is still in flight
PutPending(i) == \E op \in ops : op.rid = i /\ op.kind = "put"

\* request i issued a write of its 2xx response through the api handler
ApiWriter(i) == ApiDone(i) /\ reqs[i].put # NoEntry

\* requests i and j wrote the same key of the same cache
SameSlot(i, j) == reqs[i].h = reqs[j].h /\ reqs[i].req.url = reqs[j].req.url

\* the key request i wrote was never the target of a deletion, and every
\* write of it has taken effect
Settled(i) ==
  /\ \A j \in ReqIds : reqs[j].cls = "api" /\ SameSlot(i, j) => ~reqs[j].del
  /\ \A j \in ReqIds : ApiWriter(j) /\ SameSlot(i, j) => ~PutPending(j)

\* the successful api fetches of the key of i came one after the other
Consecutive(i) ==
  \A j, k \in ReqIds :
    ApiWriter(j) /\ ApiWriter(k) /\ SameSlot(i, j) /\ SameSlot(i, k) /\ j < k
      => j \in reqs[k].before

\* i is the last successful api fetch of its key
LastWriter(i) ==
  ApiWriter(i) /\ \A j \in ReqIds : ApiWriter(j) /\ SameSlot(i, j) => j <= i

\* C20 (as claimed): after consecutive successful api fetches of a key, once
\* the writes have taken effect, the cache holds for the key the body of the
\* last fetch.
C20_LastFetchStored ==
  \A i \in ReqIds :
    LastWriter(i) /\ Consecutive(i) /\ Settled(i) =>
      /\ reqs[i].req.url \in DOMAIN caches[reqs[i].h].entries
      /\ caches[reqs[i].h].entries[reqs[i].req.url].body = reqs[i].netBody

\* C20 (amended): after successful api fetches of a key, once the writes
\* have taken effect, the cache holds one entry for the key, and it is the
\* entry written by one of these fetches (the write that took effect last).
C20_OneEntryOfSomeFetch ==
  \A i \in ReqIds :
    ApiWriter(i) /\ Settled(i) =>
      /\ reqs[i].req.url \in DOMAIN caches[reqs[i].h].entries
      /\ \E j \in ReqIds :
           /\ ApiWriter(j) /\ SameSlot(i, j)
           /\ caches[reqs[i].h].entries[reqs[i].req.url] = reqs[j].put

\* two consecutive successful fetches of a key, both written
C20_Witness ==
  \E i, j \in ReqIds :
    /\ i < j /\ ApiWriter(i) /\ ApiWriter(j) /\ SameSlot(i, j)
    /\ i \in reqs[j].before /\ Settled(j)
    /\ caches[reqs[j].h].entries[reqs[j].req.url] = reqs[j].put

----------------------------------------------------------------------------
(* C21 *)

\* C21 (as claimed): in Scenario A, when the lookup of the second request
\* finds the entry the first request wrote, the response it returns has the
\* status, the headers and the body of the response the first request
\* received.
C21_RoundTripIdentical ==
  \A i, j \in ReqIds :
    ScenarioA(i, j) /\ reqs[j].hit = reqs[i].put =>
      /\ reqs[j].resp.status = reqs[i].resp.status
      /\ reqs[j].resp.body = reqs[i].resp.body
      /\ reqs[j].resp.ctype = reqs[i].resp.ctype
      /\ reqs[j].resp.ts = reqs[i].resp.ts

----------------------------------------------------------------------------
(* C22 *)

\* the entry of key k in cache h is created or changed by the step
EntryWritten(h, k) ==
  /\ k \in DOMAIN caches'[h].entries
  /\ k \in DOMAIN caches[h].entries => caches'[h].entries[k] # caches[h].entries[k]

\* the step is the taking effect of a put issued for a 2xx network response
PutOfNetworkResponse(h, k) ==
  \E op \in ops :
    /\ op \notin ops' /\ op.kind = "put" /\ op.h = h /\ op.key = k
    /\ caches'[h].entries[k] = op.entry
    /\ reqs[op.rid].net = "ok" /\ reqs[op.rid].resp.src = "network"
    /\ reqs[op.rid].resp.body = op.entry.body

\* the step is the prefetch of the manifest by the installing worker
PrefetchOfManifest(h, k) ==
  /\ w.pc = "addAll" /\ w'.pc = "skipWaiting" /\ h = w.h
  /\ k \in ManifestKeys

\* C22: every step that creates or changes a cache entry is the taking
\* effect of a put issued for a 2xx network response or the install-time
\* prefetch; a new cache starts empty.  (No step of a failed fetch, of a
\* cache hit, of a fallback or of the message listener writes an entry.)
C22_EntriesOnlyFromFetchOrPrefetch ==
  [][/\ \A h \in 1..Len(caches) : \A k \in DOMAIN caches'[h].entries :
          EntryWritten(h, k) => PutOfNetworkResponse(h, k) \/ PrefetchOfManifest(h, k)
     /\ \A h \in (Len(caches) + 1)..Len(caches') : DOMAIN caches'[h].entries = {}]_vars

\* a prefetched entry and a fetched entry exist, and a request whose network
\* attempt failed was answered from the cache or with a fallback
C22_Witness ==
  /\ \E h \in 1..Len(caches) : \E k \in DOMAIN caches[h].entries :
       ~Truthy(caches[h].entries[k].ts)
  /\ \E i \in ReqIds : reqs[i].put # NoEntry /\ ~PutPending(i)
       /\ reqs[i].req.url \in DOMAIN caches[reqs[i].h].entries
  /\ \E j \in ReqIds : Handled(j) /\ NetFailed(j) /\ reqs[j].resp.src \in {"cache", "fallback"}

----------------------------------------------------------------------------
(* C23 *)

\* C23 (as claimed): every step of request handling that removes an entry
\* removes an entry of an api cache that is expired at that moment.
C23_OnlyExpiredDeleted ==
  [][\A h \in 1..Len(caches) : \A k \in DOMAIN caches[h].entries :
       k \notin DOMAIN caches'[h].entries =>
         /\ caches[h].name[2] = "-api"
         /\ ApiIsExpired(caches[h].entries[k], now)]_vars

----------------------------------------------------------------------------
(* C24 *)

\* a syncWeatherData() call completes in the step
SyncCompletes == \E s \in agent.syncing : s \notin agent'.syncing

\* a sync or push event is dispatched in the step
HostEvent == agent'.events = agent.events + 1

\* C24 (as claimed): when syncWeatherData completes, every open client has
\* been posted one more notification and no other client any; no step of a
\* sync event touches the caches; a sync event with another tag changes
\* nothing.
C24_SyncNotifiesOpenClients ==
  [][/\ SyncCompletes =>
          /\ \A c \in ClientIds :
               clients'[c] = IF clients[c].state = "open"
                             THEN [clients[c] EXCEPT !.inbox = @ + 1]
                             ELSE clients[c]
          /\ caches' = caches /\ ops' = ops /\ reqs' = reqs
     /\ HostEvent =>
          /\ caches' = caches /\ ops' = ops /\ reqs' = reqs /\ clients' = clients
          /\ agent'.syncing = agent.syncing => agent'.shown >= agent.shown]_vars

----------------------------------------------------------------------------
(* C25 *)

\* C25: a message of another type than SKIP_WAITING changes nothing; a
\* SKIP_WAITING message to a waiting worker sets its skip-waiting flag, with
\* which its activation can start at once; and a worker's flag is set
\* outside the install handler only by a SKIP_WAITING message.
C25_OnlySkipWaitingDirective ==
  [][/\ Message("OTHER") => UNCHANGED vars
     /\ Message("SKIP_WAITING") /\ w.pc = "installed" => w'.skip
     /\ w.pc = "installed" /\ w.skip => ENABLED ActivateStart
     /\ w'.gen = w.gen /\ w'.pc = w.pc /\ ~w.skip /\ w'.skip => Message("SKIP_WAITING")]_vars

\* a worker whose prefetch failed, which therefore waited, was activated
\* after a SKIP_WAITING message while a request of the old worker was in flight
C25_Witness ==
  /\ w.gen = 2 /\ w.failed /\ w.skip /\ w.pc = "activated"
  /\ InFlight # {}

----------------------------------------------------------------------------
(* C26 *)

\* C26 (as claimed): every entry of every cache carries the time at which it
\* was stored.
C26_EveryEntryStamped ==
  \A h \in 1..Len(caches) : \A k \in DOMAIN caches[h].entries :
    Truthy(caches[h].entries[k].ts)

----------------------------------------------------------------------------
(* C27 *)

\* requests i and j were in flight at the same time
Concurrent(i, j) == i # j /\ i \notin reqs[j].before /\ j \notin reqs[i].before

\* the next step of the handler of request i, whatever its outcome
StepOf(i) ==
  \/ \E out \in NetOutcomes : ApiFetch(i, out)
  \/ ApiOpenWrite(i, FALSE)
  \/ ApiOpenRead(i, FALSE)
  \/ ApiMatch(i)
  \/ StaticMatch(i)
  \/ \E out \in NetOutcomes : StaticFetch(i, out)
  \/ StaticOpenWrite(i, FALSE)
  \/ StaticMatch2(i)

\* C27: two concurrent successful api requests for a key, once their writes
\* have taken effect (and no other request wrote or deleted the key), leave
\* one entry for the key, written by one of the two; and every request in
\* flight can take its next step whatever the other requests are waiting
\* for.
C27_ConcurrentWritersOneEntry ==
  /\ \A i, j \in ReqIds :
       /\ ApiWriter(i) /\ ApiWriter(j) /\ SameSlot(i, j) /\ Concurrent(i, j)
       /\ Settled(i)
       /\ \A k \in ReqIds : ApiWriter(k) /\ SameSlot(i, k) => k \in {i, j}
       => /\ reqs[i].req.url \in DOMAIN caches[reqs[i].h].entries
          /\ caches[reqs[i].h].entries[reqs[i].req.url] \in {reqs[i].put, reqs[j].put}
  /\ \A i \in InFlight : ENABLED StepOf(i)

\* two concurrent writers of a key whose writes have taken effect, the
\* earlier request's write last
C27_Witness ==
  \E i, j \in ReqIds :
    /\ i < j /\ ApiWriter(i) /\ ApiWriter(j) /\ SameSlot(i, j) /\ Concurrent(i, j)
    /\ Settled(i)
    /\ caches[reqs[i].h].entries[reqs[i].req.url] = reqs[i].put

----------------------------------------------------------------------------
(* C28 *)

\* C28 (as claimed): once a worker has been activated, with every deletion
\* done and the clients claimed, no cache tagged with another version exists.
C28_NoOldNamespaceAfterActivation ==
  w.pc = "activated" /\ w.claimed => \A n \in CacheKeys : n[1] = w.ver

----------------------------------------------------------------------------
(* C29 *)

\* caches.match(request): the cache the returned entry comes from
FirstHit(key) ==
  CHOOSE i \in 1..Len(caches) :
    /\ caches[i].live /\ key \in DOMAIN caches[i].entries
    /\ \A j \in 1..Len(caches) :
         caches[j].live /\ key \in DOMAIN caches[j].entries => i <= j

\* the cache of the class and version of a request
OwnCacheName(r) ==
  CASE r.cls = "api"     -> ApiCacheName(r.ver)
    [] r.cls = "static"  -> CacheName(r.ver)
    [] r.cls = "dynamic" -> DynamicCacheName(r.ver)

\* C29 (as claimed): every lookup of the static handler (and of the dynamic
\* handler) that finds an entry finds it in the cache of the request's own
\* class and version.
C29_ServedFromOwnNamespace ==
  [][\A i \in 1..Len(reqs) :
       /\ reqs[i].pc \in {"st_match", "st_match2", "dyn_match"}
       /\ reqs'[i].pc # reqs[i].pc
       /\ CachesMatch(reqs[i].req.url) # NoEntry
       => caches[FirstHit(reqs[i].req.url)].name = OwnCacheName(reqs[i])]_vars

----------------------------------------------------------------------------
(* C30 *)

\* the manifest is in the cache the installing worker opened
Prefetched == ManifestKeys \subseteq DOMAIN caches[w.h].entries

\* the properties of a state that C30 asks for
SkipWaitingDiscipline ==
  /\ ENABLED InstallSkipWaiting => ~w.failed /\ Prefetched
  /\ w.pc = "installed" /\ ~w.failed => w.skip /\ ENABLED ActivateStart
  /\ w.failed => ~ENABLED InstallSkipWaiting

\* C30: the install handler invokes skipWaiting only after the whole
\* manifest was prefetched; a worker installed after a successful prefetch
\* has its skip-waiting flag set, so that its activation can start without a
\* SKIP_WAITING message; after a failed prefetch the flag is set by no step
\* other than a SKIP_WAITING message.
C30_SkipWaitingAfterPrefetch ==
  [][/\ SkipWaitingDiscipline
     /\ w'.failed /\ w'.gen = w.gen /\ ~w.skip /\ w'.skip => Message("SKIP_WAITING")
     /\ InstallSkipWaiting => w.pc = "skipWaiting" /\ ~w.failed /\ Prefetched]_vars

\* a second worker whose prefetch succeeded is installed with the flag set
\* while the first worker is still the active one
C30_Witness ==
  /\ w.gen = 2 /\ w.pc = "installed" /\ ~w.failed /\ w.skip
  /\ active.gen = 1

====
